---- MODULE Spec2Model ----
(***************************************************************************)
(* Model of the PDF password remover: the class PDFPasswordRemover         *)
(* (src/wasm/pdf-handler.cpp) and its JavaScript binding PDFRemoverWrapper *)
(* (src/wasm/bindings.cpp).                                                *)
(*                                                                         *)
(* A byte string is a sequence of one-character strings; positions are     *)
(* zero-based as in std::string, and npos is -1.  The diagnostic log is    *)
(* the sequence of its lines (log() appends message + "\n").               *)
(***************************************************************************)
EXTENDS Integers, Sequences, FiniteSets, TLC

VARIABLES
    host,        \* which program uses the class: "js" (the binding) or "cpp"
    allLogs,     \* PDFPasswordRemover::allLogs
    lastOutput,  \* PDFRemoverWrapper::lastOutput
    lastLog,     \* PDFRemoverWrapper::lastLog
    outputData,  \* the caller's outputData string of the last direct call
    allLogs2,    \* allLogs of a second instance fed passwords of equal length
    lastLog2,    \* lastLog of that second instance
    call,        \* the most recent call: arguments, return value, its log lines
    ncalls,      \* number of calls made so far
    pdf,         \* the argument of findEncryptionDict (scanner specification)
    scan         \* the scanner's locals and result, once it has run

vars == <<host, allLogs, lastOutput, lastLog, outputData, allLogs2, lastLog2,
          call, ncalls, pdf, scan>>

(***************************************************************************)
(* Bounds.                                                                 *)
(***************************************************************************)
MaxCalls == 2
MaxPwLen == 1
MaxFrags == 5

(***************************************************************************)
(* Byte strings.                                                           *)
(***************************************************************************)
npos == -1

PdfMagic == <<"%", "P", "D", "F">>

EncryptKey == <<"/", "E", "n", "c", "r", "y", "p", "t">>

DictOpen == <<"<", "<">>

DictClose == <<">", ">">>

Min(a, b) == IF a < b THEN a ELSE b

\* does pat occur in s at zero-based position i
MatchAt(s, pat, i) ==
    /\ i >= 0
    /\ i + Len(pat) <= Len(s)
    /\ \A k \in 1..Len(pat) : s[i + k] = pat[k]

\* std::string::find(pat, pos): the first occurrence starting at or after pos
find(s, pat, pos) ==
    LET hits == {i \in pos..(Len(s) - Len(pat)) : MatchAt(s, pat, i)}
    IN  IF hits = {} THEN npos
        ELSE CHOOSE i \in hits : \A j \in hits : i <= j

\* std::string::rfind(pat, pos): the last occurrence starting at or before pos
rfind(s, pat, pos) ==
    LET hits == {i \in 0..Min(pos, Len(s) - Len(pat)) : MatchAt(s, pat, i)}
    IN  IF hits = {} THEN npos
        ELSE CHOOSE i \in hits : \A j \in hits : i >= j

\* std::string::substr(pos, n), for pos <= size: at most n characters from pos
substr(s, pos, n) == SubSeq(s, pos + 1, Min(pos + n, Len(s)))

(***************************************************************************)
(* PDFPasswordRemover.                                                     *)
(***************************************************************************)
\* log(message): allLogs += message + "\n"
log(logs, message) == Append(logs, message)

\* findEncryptionDict(pdf): the dictionary text ("" when none is returned),
\* the log after the call, and the locals encPos, start, end
findEncryptionDict(logs, s) ==
    LET encPos == find(s, EncryptKey, 0)
        l1     == log(logs, "Found /Encrypt entry at position: " \o ToString(encPos))
        start  == rfind(s, DictOpen, encPos)
        end    == find(s, DictClose, start)
        result == substr(s, start, end - start + 2)
    IN  IF encPos = npos
        THEN [result |-> <<>>, logs |-> log(logs, "No encryption found in PDF"),
              encPos |-> npos, start |-> npos, end |-> npos]
        ELSE IF start = npos
        THEN [result |-> <<>>,
              logs |-> log(l1, "ERROR: Could not find encryption dictionary start"),
              encPos |-> encPos, start |-> npos, end |-> npos]
        ELSE IF end = npos
        THEN [result |-> <<>>,
              logs |-> log(l1, "ERROR: Could not find encryption dictionary end"),
              encPos |-> encPos, start |-> start, end |-> npos]
        ELSE [result |-> result,
              logs |-> log(l1, "Encryption dict size: " \o ToString(Len(result)) \o " bytes"),
              encPos |-> encPos, start |-> start, end |-> end]

\* the lines logged on the path of an encrypted document (lines 143-153)
StubNotice ==
    << "PDF is encrypted but decryption not yet fully implemented",
       "A complete implementation would:",
       "  1. Parse the encryption dictionary",
       "  2. Compute the encryption key from password",
       "  3. Decrypt the streams and strings",
       "  4. Remove the /Encrypt entry",
       "",
       "Recommended alternatives:",
       "  - Build QPDF for Emscripten (full PDF support)",
       "  - Use pre-compiled WASM PDF library (e.g., pdfium.wasm)",
       "  - Use PDF.js with password support (JavaScript fallback)" >>

RECURSIVE Text(_)
Text(chars) == IF chars = <<>> THEN "" ELSE Head(chars) \o Text(Tail(chars))

\* a variant that logs the password itself
PasswordLoggedInClear(password) == "Password: " \o Text(password)

\* line 116: what is logged about the password
PasswordLogged(password) ==
    "Password length: " \o ToString(Len(password)) \o " chars"

\* a variant that forgets the password
EmptyInputOnly(inputData, password) == inputData = <<>>

\* line 119: the input validation
EmptyInputOrPassword(inputData, password) ==
    inputData = <<>> \/ password = <<>>

\* a variant that compares five characters with the four of the magic
StartsWithPdfMagicOffByOne(inputData) == substr(inputData, 0, 5) = PdfMagic

\* line 125: the header check
StartsWithPdfMagic(inputData) == substr(inputData, 0, 4) = PdfMagic

\* lines 136-139: the return of a document in which no dictionary was found
ReturnAsIs(logs, inputData) ==
    [ret |-> TRUE, outputData |-> inputData,
     logs |-> log(log(logs, "PDF is not encrypted, returning as-is"),
                  "=== PDF processing complete (unencrypted) ===")]

\* removePDFPassword(inputData, password, outputData) on an instance whose
\* allLogs is logs: the return value, outputData and allLogs after the call.
\* No statement of the try block throws, so neither catch clause is entered.
removePDFPassword(logs, inputData, password, out) ==
    LET l1 == log(logs, "=== Starting PDF password removal ===")
        l2 == log(l1, "Input size: " \o ToString(Len(inputData)) \o " bytes")
        l3 == log(l2, PasswordLogged(password))
        l4 == log(l3, "PDF header validation: OK")
        enc == findEncryptionDict(l4, inputData)
    IN  IF EmptyInputOrPassword(inputData, password)
        THEN [ret |-> FALSE, outputData |-> out,
              logs |-> log(l3, "ERROR: Empty input or password")]
        ELSE IF ~StartsWithPdfMagic(inputData)
        THEN [ret |-> FALSE, outputData |-> out,
              logs |-> log(l3, "ERROR: Input does not start with PDF header")]
        ELSE IF enc.result = <<>>
        THEN ReturnAsIs(enc.logs, inputData)
        ELSE [ret |-> TRUE, outputData |-> inputData,
              logs |-> log(enc.logs \o StubNotice,
                           "=== PDF processing complete (returned unchanged) ===")]

\* getLastLog()
getLastLog(logs) == logs

(***************************************************************************)
(* PDFRemoverWrapper.                                                      *)
(***************************************************************************)
\* the loop of processPDF that copies the Uint8Array into inputStr
jsArrayToString(a) == [i \in 1..Len(a) |-> a[i]]

\* the resize and memcpy of processPDF that store outputStr in lastOutput
storeOutput(outputStr) == SubSeq(outputStr, 1, Len(outputStr))

\* processPDF(inputData, password) on a wrapper whose remover has allLogs logs
\* and whose fields are lastOut and lastLg: the return value, the fields after
\* the call and the local outputStr.  Nothing in the try block throws for a
\* Uint8Array argument, so the catch clause is never entered.
processPDF(logs, lastOut, lastLg, inputData, password) ==
    LET r == removePDFPassword(logs, jsArrayToString(inputData), password, <<>>)
    IN  IF Len(inputData) = 0 \/ password = <<>>
        THEN [ret |-> FALSE, outputStr |-> <<>>, allLogs |-> logs,
              lastOutput |-> lastOut, lastLog |-> lastLg]
        ELSE [ret |-> r.ret, outputStr |-> r.outputData, allLogs |-> r.logs,
              lastOutput |-> IF r.ret THEN storeOutput(r.outputData) ELSE lastOut,
              lastLog |-> getLastLog(r.logs)]

\* getOutput()
getOutput == lastOutput

\* getOutputSize()
getOutputSize == Len(lastOutput)

\* getLog()
getLog == lastLog

(***************************************************************************)
(* Inputs.                                                                 *)
(***************************************************************************)
Header == PdfMagic \o <<"-">>

\* the documents handed to the entry points: no header, truncated or wrong
\* header, unencrypted, /Encrypt without a delimited dictionary, encrypted
Documents ==
    { <<>>,
      <<"%", "P", "D">>,
      PdfMagic,
      PdfMagic \o <<"x">>,
      <<"x">> \o Header,
      Header,
      Header \o <<"1">>,
      Header \o EncryptKey,
      Header \o DictOpen \o EncryptKey,
      Header \o DictOpen \o EncryptKey \o DictClose,
      DictOpen \o EncryptKey \o DictClose }

PwChars == {"a", "b"}

Passwords == UNION {[1..n -> PwChars] : n \in 0..MaxPwLen}

\* the password of the same length that the second instance is given
SameLengthPassword(password) == [i \in 1..Len(password) |-> "a"]

Fragments == {DictOpen, DictClose, EncryptKey, <<"x">>}

RECURSIVE Flatten(_)
Flatten(fs) == IF fs = <<>> THEN <<>> ELSE Head(fs) \o Flatten(Tail(fs))

ScanInputs == {Flatten(fs) : fs \in UNION {[1..n -> Fragments] : n \in 0..MaxFrags}}

(***************************************************************************)
(* State machine.                                                          *)
(***************************************************************************)
NoCall == [op |-> "none", input |-> <<>>, password |-> <<>>, pwMatches |-> FALSE,
           ret |-> FALSE, out |-> <<>>, trace |-> <<>>]

NoScan == [done |-> FALSE, result |-> <<>>, encPos |-> npos, start |-> npos,
           end |-> npos]

\* the lines a call appended to the log
Appended(before, after) == SubSeq(after, Len(before) + 1, Len(after))

\* whether the document's encryption dictionary is returned by the scanner
DictLocated(inputData) == findEncryptionDict(<<>>, inputData).result # <<>>

\* whether the password is the document's user or owner password: a fact of
\* the document that the code never computes, chosen freely for encrypted ones
MatchChoices(inputData, password) ==
    IF DictLocated(inputData) /\ password # <<>> THEN BOOLEAN ELSE {FALSE}

Init ==
    /\ host \in {"js", "cpp"}
    /\ allLogs = <<>>
    /\ lastOutput = <<>>
    /\ lastLog = <<>>
    /\ outputData = <<>>
    /\ allLogs2 = <<>>
    /\ lastLog2 = <<>>
    /\ call = NoCall
    /\ ncalls = 0
    /\ pdf = <<>>
    /\ scan = NoScan

\* a JavaScript caller invokes PDFRemover.processPDF
ProcessPDF(inputData, password, matches) ==
    /\ host = "js"
    /\ ncalls < MaxCalls
    /\ LET w  == processPDF(allLogs, lastOutput, lastLog, inputData, password)
           w2 == processPDF(allLogs2, lastOutput, lastLog2, inputData,
                            SameLengthPassword(password))
       IN  /\ allLogs' = w.allLogs
           /\ lastOutput' = w.lastOutput
           /\ lastLog' = w.lastLog
           /\ allLogs2' = w2.allLogs
           /\ lastLog2' = w2.lastLog
           /\ call' = [op |-> "processPDF", input |-> inputData,
                       password |-> password, pwMatches |-> matches,
                       ret |-> w.ret, out |-> w.outputStr,
                       trace |-> Appended(allLogs, w.allLogs)]
    /\ ncalls' = ncalls + 1
    /\ UNCHANGED <<host, outputData, pdf, scan>>

\* a C++ caller invokes PDFPasswordRemover::removePDFPassword with a fresh
\* outputData string
RemovePDFPassword(inputData, password, matches) ==
    /\ host = "cpp"
    /\ ncalls < MaxCalls
    /\ LET r  == removePDFPassword(allLogs, inputData, password, <<>>)
           r2 == removePDFPassword(allLogs2, inputData,
                                   SameLengthPassword(password), <<>>)
       IN  /\ allLogs' = r.logs
           /\ outputData' = r.outputData
           /\ allLogs2' = r2.logs
           /\ call' = [op |-> "removePDFPassword", input |-> inputData,
                       password |-> password, pwMatches |-> matches,
                       ret |-> r.ret, out |-> r.outputData,
                       trace |-> Appended(allLogs, r.logs)]
    /\ ncalls' = ncalls + 1
    /\ UNCHANGED <<host, lastOutput, lastLog, lastLog2, pdf, scan>>

Next ==
    \/ \E inputData \in Documents, password \in Passwords :
          \E matches \in MatchChoices(inputData, password) :
             ProcessPDF(inputData, password, matches)
    \/ \E inputData \in Documents, password \in Passwords :
          \E matches \in MatchChoices(inputData, password) :
             RemovePDFPassword(inputData, password, matches)

Spec == Init /\ [][Next]_vars

(***************************************************************************)
(* The scanner alone, on every concatenation of at most MaxFrags fragments.*)
(***************************************************************************)
InitScan ==
    /\ host = "cpp"
    /\ allLogs = <<>>
    /\ lastOutput = <<>>
    /\ lastLog = <<>>
    /\ outputData = <<>>
    /\ allLogs2 = <<>>
    /\ lastLog2 = <<>>
    /\ call = NoCall
    /\ ncalls = 0
    /\ pdf \in ScanInputs
    /\ scan = NoScan

FindEncryptionDict ==
    /\ ~scan.done
    /\ LET e == findEncryptionDict(allLogs, pdf)
       IN  /\ scan' = [done |-> TRUE, result |-> e.result, encPos |-> e.encPos,
                       start |-> e.start, end |-> e.end]
           /\ allLogs' = e.logs
    /\ UNCHANGED <<host, lastOutput, lastLog, outputData, allLogs2, lastLog2,
                   call, ncalls, pdf>>

NextScan == FindEncryptionDict

SpecScan == InitScan /\ [][NextScan]_vars

(***************************************************************************)
(* Vocabulary of the properties.                                           *)
(***************************************************************************)
Called == ncalls > 0

Contains(s, pat) == \E i \in 0..(Len(s) - Len(pat)) : MatchAt(s, pat, i)

HasPdfHeader(s) == MatchAt(s, Header, 0)

Mentions(trace, line) == \E i \in DOMAIN trace : trace[i] = line

\* the diagnostics the caller can retrieve
Diagnostics == IF host = "js" THEN getLog ELSE getLastLog(allLogs)

\* the output the caller can retrieve
Output == IF host = "js" THEN getOutput ELSE outputData

\* The code returns a boolean; the outcome of a call in the vocabulary of the
\* error kinds is read off its return value and the lines it logged.  A false
\* return without any line is the binding's own input validation.
Kind(c) ==
    IF c.ret
    THEN IF Mentions(c.trace, "PDF is not encrypted, returning as-is")
         THEN "NoEncryption" ELSE "Success"
    ELSE IF c.trace = <<>> THEN "InvalidInput"
    ELSE IF c.trace[Len(c.trace)] = "ERROR: Empty input or password"
         THEN "InvalidInput"
    ELSE IF c.trace[Len(c.trace)] = "ERROR: Input does not start with PDF header"
         THEN "MalformedDocument"
    ELSE "InternalError"

(***************************************************************************)
(* C1: a call with a non-empty password on an input that starts with the   *)
(* PDF header and contains no /Encrypt key succeeds, and the output bytes  *)
(* are exactly the input bytes.                                            *)
(***************************************************************************)
UnencryptedCase ==
    /\ Called
    /\ HasPdfHeader(call.input)
    /\ ~Contains(call.input, EncryptKey)
    /\ call.password # <<>>

C1_UnencryptedReturnedUnchanged ==
    UnencryptedCase =>
        /\ call.ret
        /\ call.out = call.input
        /\ Output = call.input

C1_Witness ==
    /\ UnencryptedCase
    /\ Len(call.input) > Len(Header)
    /\ Output = call.input

(***************************************************************************)
(* C6: a call with an empty password fails at the input validation,        *)
(* whatever the input: the header is not validated, /Encrypt is not looked *)
(* for, no output is produced or stored, and the failure is the            *)
(* InvalidInput one.                                                       *)
(***************************************************************************)
C6_EmptyPasswordRejectedFirst ==
    [][(ncalls' # ncalls /\ call'.password = <<>>) =>
          /\ ~call'.ret
          /\ Kind(call') = "InvalidInput"
          /\ ~Mentions(call'.trace, "PDF header validation: OK")
          /\ ~Mentions(call'.trace, "ERROR: Input does not start with PDF header")
          /\ Len(call'.trace) <= 4
          /\ call'.out = <<>>
          /\ lastOutput' = lastOutput]_vars

C6_Witness ==
    /\ Called
    /\ call.password = <<>>
    /\ call.input # <<>>
    /\ ~HasPdfHeader(call.input)
    /\ ~call.ret

(***************************************************************************)
(* C8: what the diagnostics hold about the passwords depends only on their *)
(* lengths: an instance given the same inputs and passwords of the same    *)
(* lengths has the same allLogs and the same lastLog.                      *)
(***************************************************************************)
C8_LogDependsOnPasswordLengthOnly ==
    /\ allLogs2 = allLogs
    /\ lastLog2 = lastLog

C8_Witness ==
    /\ Called
    /\ call.password # SameLengthPassword(call.password)
    /\ call.trace # <<>>
    /\ Diagnostics # <<>>

(***************************************************************************)
(* C2: for an encrypted document (its /Encrypt dictionary is located) and  *)
(* its correct password, whenever the call reports success the returned    *)
(* bytes contain no /Encrypt entry.                                        *)
(***************************************************************************)
C2_SuccessOutputHasNoEncrypt ==
    (Called /\ DictLocated(call.input) /\ call.pwMatches /\ call.ret) =>
        /\ ~Contains(call.out, EncryptKey)
        /\ ~Contains(Output, EncryptKey)

(***************************************************************************)
(* C3: for an encrypted document and a non-empty password that is neither  *)
(* its user nor its owner password, the call fails with IncorrectPassword  *)
(* and returns no output bytes; it never reports success.                  *)
(***************************************************************************)
C3_WrongPasswordFails ==
    (Called /\ DictLocated(call.input) /\ call.password # <<>> /\ ~call.pwMatches) =>
        /\ ~call.ret
        /\ call.out = <<>>

(***************************************************************************)
(* C4: after a call that fails, the output retrievable through the         *)
(* interface (getOutput / getOutputSize, or the outputData argument) is    *)
(* empty, whatever calls came before.                                      *)
(***************************************************************************)
C4_NoOutputAfterFailure ==
    (Called /\ ~call.ret) =>
        /\ call.out = <<>>
        /\ Output = <<>>
        /\ getOutputSize = 0

(***************************************************************************)
(* C5: the diagnostics retrievable after a call (getLog / getLastLog) are  *)
(* the trace of that call only, so that they do not depend on the calls    *)
(* made before it.                                                         *)
(***************************************************************************)
C5_DiagnosticsOfLastCallOnly ==
    Called => Diagnostics = call.trace

(***************************************************************************)
(* C7: with a non-empty password, every input that is empty, shorter than  *)
(* the header or does not begin with the five bytes %PDF- fails with       *)
(* MalformedDocument; it reaches neither the scan for /Encrypt nor a       *)
(* success result.                                                         *)
(***************************************************************************)
C7_NoHeaderIsMalformedDocument ==
    (Called /\ call.password # <<>> /\ ~HasPdfHeader(call.input)) =>
        /\ ~call.ret
        /\ Kind(call) = "MalformedDocument"
        /\ ~Mentions(call.trace, "PDF header validation: OK")

(***************************************************************************)
(* C9: the call takes the path of an unencrypted document (success, input  *)
(* returned as not encrypted) only when the input contains no /Encrypt     *)
(* key anywhere.                                                           *)
(***************************************************************************)
C9_NoEncryptionOnlyWithoutEncryptKey ==
    (Called /\ Kind(call) = "NoEncryption") => ~Contains(call.input, EncryptKey)

(***************************************************************************)
(* C10: for an input whose first /Encrypt lies inside a dictionary, the    *)
(* range the scanner returns runs from a << to its matching >> at the same *)
(* nesting depth and encloses the /Encrypt position.                       *)
(***************************************************************************)
\* the position of the >> that closes the << at position from, tracking the
\* nesting depth from position i on
RECURSIVE ClosingFrom(_, _, _)
ClosingFrom(s, i, depth) ==
    IF i + 2 > Len(s) THEN npos
    ELSE IF MatchAt(s, DictOpen, i) THEN ClosingFrom(s, i + 2, depth + 1)
    ELSE IF MatchAt(s, DictClose, i)
         THEN IF depth = 1 THEN i ELSE ClosingFrom(s, i + 2, depth - 1)
    ELSE ClosingFrom(s, i + 1, depth)

MatchingClose(s, open) == ClosingFrom(s, open, 0)

FirstEncrypt(s) ==
    CHOOSE i \in 0..Len(s) :
        /\ MatchAt(s, EncryptKey, i)
        /\ \A j \in 0..(i - 1) : ~MatchAt(s, EncryptKey, j)

\* the first /Encrypt lies between a << and the >> that matches it
EncryptInsideDict(s) ==
    /\ Contains(s, EncryptKey)
    /\ \E open \in 0..Len(s) :
          /\ MatchAt(s, DictOpen, open)
          /\ open < FirstEncrypt(s)
          /\ MatchingClose(s, open) >= FirstEncrypt(s) + Len(EncryptKey)

C10_RangeIsMatchedDictionary ==
    (scan.done /\ EncryptInsideDict(pdf)) =>
        /\ scan.result # <<>>
        /\ scan.start < scan.encPos
        /\ scan.end >= scan.encPos + Len(EncryptKey)
        /\ scan.end = MatchingClose(pdf, scan.start)

====
